---- MODULE Spec2Model ----
(***************************************************************************)
(* State-machine model of js/main.js: the navigation controller (smooth   *)
(* scroll + active-link highlighting), the mobile menu toggle and the      *)
(* contact-form validator, all acting on one DOM.                          *)
(*                                                                         *)
(* The markup (index.html) is an input of the script: Init draws the page  *)
(* from Pages.  Strings the script inspects character by character (hrefs, *)
(* ids) are sequences of one-character strings.                            *)
(***************************************************************************)
EXTENDS Integers, Sequences, FiniteSets, TLC

VARIABLES page, pageYOffset, linkActive, menuActive, toggleActive,
          queue, event, scrollPending, scrollTarget,
          value, fieldError, errorText, successShow, successText, timers

navVars == <<pageYOffset, linkActive, menuActive, toggleActive,
             scrollPending, scrollTarget>>
formVars == <<value, fieldError, errorText, successShow, successText, timers>>

vars == <<page, pageYOffset, linkActive, menuActive, toggleActive,
          queue, event, scrollPending, scrollTarget,
          value, fieldError, errorText, successShow, successText, timers>>

(***************************************************************************)
(* Bounds and program constants                                            *)
(***************************************************************************)
\* user scrolls stop within Slack pixels of every boundary of the layout
Slack == 1

\* main.js:61  const headerOffset = 80
headerOffset == 80

\* main.js:79  window.pageYOffset + 100
scrollProbe == 100

\* main.js:270  setTimeout(..., 5000)
hideDelay == 5000

\* hide timers that may be pending at once
MaxTimers == 2

\* a DOM lookup yields an element (here: its document-relative top) or null
null == [found |-> FALSE, top |-> 0]
Elem(top) == [found |-> TRUE, top |-> top]
NoTarget == <<>>

(***************************************************************************)
(* Strings                                                                 *)
(***************************************************************************)
Hash == <<"#">>
IdHome == <<"h", "o", "m", "e">>
IdAbout == <<"a", "b", "o", "u", "t">>
IdContact == <<"c", "o", "n", "t", "a", "c", "t">>
IdTop == <<"t", "o", "p">>
IdGone == <<"g", "o", "n", "e">>
External == <<"h", "t", "t", "p", ":", "/", "/", "x", ".", "i", "o">>

\* variant: any non-empty href is taken for an internal link
StartsWithAnything(s) == Len(s) >= 1

\* String.prototype.startsWith('#')
StartsWithHash(s) == Len(s) >= 1 /\ s[1] = "#"

\* String.prototype.substring(1)
Substring1(s) == IF Len(s) <= 1 THEN <<>> ELSE SubSeq(s, 2, Len(s))

(***************************************************************************)
(* Pages: the markup the script is loaded into.                            *)
(*   sections   section[id] elements in document order (id, offsetTop,     *)
(*              offsetHeight)                                              *)
(*   anchors    other elements that carry an id (id, top)                  *)
(*   links      .nav-link elements in document order (href, inside the     *)
(*              .nav-menu panel or not, 'active' in the markup or not)     *)
(*   hasMenu / hasToggle   presence of .nav-menu / .nav-toggle             *)
(*   maxScroll  document height minus viewport height                      *)
(***************************************************************************)
Sec(id, top, height) == [id |-> id, top |-> top, height |-> height]
Lnk(href, inMenu, active) == [href |-> href, inMenu |-> inMenu, active |-> active]

\* three contiguous sections starting at the top of the document
PagePlain ==
  [sections |-> << Sec(IdHome, 0, 300), Sec(IdAbout, 300, 300), Sec(IdContact, 600, 300) >>,
   anchors |-> {},
   links |-> << Lnk(Hash \o IdHome, TRUE, TRUE), Lnk(Hash \o IdAbout, TRUE, FALSE),
                Lnk(Hash \o IdContact, TRUE, FALSE) >>,
   hasMenu |-> TRUE, hasToggle |-> TRUE, hasForm |-> TRUE, maxScroll |-> 500]

\* an unidentified hero above the first section, a gap between sections,
\* a bare "#" link, an external link and a link to a missing element
PageGaps ==
  [sections |-> << Sec(IdAbout, 200, 150), Sec(IdContact, 400, 200) >>,
   anchors |-> {[id |-> IdTop, top |-> 0]},
   links |-> << Lnk(Hash, FALSE, FALSE), Lnk(Hash \o IdAbout, TRUE, FALSE),
                Lnk(Hash \o IdContact, TRUE, FALSE), Lnk(Hash \o IdGone, TRUE, FALSE),
                Lnk(External, TRUE, FALSE), Lnk(Hash \o IdTop, FALSE, FALSE) >>,
   hasMenu |-> TRUE, hasToggle |-> TRUE, hasForm |-> TRUE, maxScroll |-> 400]

\* malformed layout: the second section overlaps the first, the third is
\* nested in the second
PageOverlap ==
  [sections |-> << Sec(IdHome, 0, 400), Sec(IdAbout, 250, 350), Sec(IdContact, 300, 100) >>,
   anchors |-> {},
   links |-> << Lnk(Hash \o IdHome, TRUE, FALSE), Lnk(Hash \o IdAbout, TRUE, FALSE),
                Lnk(Hash \o IdContact, TRUE, TRUE) >>,
   hasMenu |-> TRUE, hasToggle |-> TRUE, hasForm |-> TRUE, maxScroll |-> 400]

\* one section below an unidentified hero, one link in the panel
PageMini ==
  [sections |-> << Sec(IdAbout, 100, 300) >>,
   anchors |-> {},
   links |-> << Lnk(Hash \o IdAbout, TRUE, FALSE) >>,
   hasMenu |-> TRUE, hasToggle |-> TRUE, hasForm |-> TRUE, maxScroll |-> 200]

\* the last section is shorter than the viewport: the document is 750 high,
\* the viewport 600
PageShort ==
  [sections |-> << Sec(IdHome, 0, 300), Sec(IdAbout, 300, 300), Sec(IdContact, 600, 150) >>,
   anchors |-> {},
   links |-> << Lnk(Hash \o IdHome, TRUE, TRUE), Lnk(Hash \o IdAbout, TRUE, FALSE),
                Lnk(Hash \o IdContact, TRUE, FALSE) >>,
   hasMenu |-> TRUE, hasToggle |-> TRUE, hasForm |-> TRUE, maxScroll |-> 150]

\* no .nav-menu element: the links sit in the header itself
PageNoMenu ==
  [sections |-> << Sec(IdAbout, 100, 300) >>,
   anchors |-> {},
   links |-> << Lnk(Hash \o IdAbout, FALSE, FALSE), Lnk(Hash \o IdGone, FALSE, FALSE) >>,
   hasMenu |-> FALSE, hasToggle |-> TRUE, hasForm |-> TRUE, maxScroll |-> 200]

\* no .nav-toggle element: the panel is always laid out
PageNoToggle ==
  [sections |-> << Sec(IdAbout, 100, 300) >>,
   anchors |-> {},
   links |-> << Lnk(Hash \o IdAbout, TRUE, FALSE) >>,
   hasMenu |-> TRUE, hasToggle |-> FALSE, hasForm |-> TRUE, maxScroll |-> 200]

Pages == {PagePlain, PageGaps, PageOverlap, PageMini, PageShort, PageNoMenu, PageNoToggle}

Links == 1..Len(page.links)
Href(i) == page.links[i].href

(***************************************************************************)
(* DOM queries                                                             *)
(***************************************************************************)
\* variant: an id that names nothing falls back to the top of the document
GetElementByIdOrTop(id) ==
  IF \E k \in 1..Len(page.sections) : page.sections[k].id = id
  THEN Elem(page.sections[CHOOSE k \in 1..Len(page.sections) :
                             /\ page.sections[k].id = id
                             /\ \A j \in 1..(k-1) : page.sections[j].id # id].top)
  ELSE IF \E a \in page.anchors : a.id = id
       THEN Elem((CHOOSE a \in page.anchors : a.id = id).top)
  ELSE Elem(0)

\* document.getElementById: the first element in the document with that id,
\* or null.  The empty string never names an element.
GetElementById(id) ==
  IF id = <<>> THEN null
  ELSE IF \E k \in 1..Len(page.sections) : page.sections[k].id = id
       THEN Elem(page.sections[CHOOSE k \in 1..Len(page.sections) :
                                  /\ page.sections[k].id = id
                                  /\ \A j \in 1..(k-1) : page.sections[j].id # id].top)
  ELSE IF \E a \in page.anchors : a.id = id
       THEN Elem((CHOOSE a \in page.anchors : a.id = id).top)
  ELSE null

\* Element.getBoundingClientRect().top: viewport-relative
BoundingClientRectTop(el) == el.top - pageYOffset

\* window.scrollTo clamps the request to the scrollable range
Clamp(y) == IF y < 0 THEN 0 ELSE IF y > page.maxScroll THEN page.maxScroll ELSE y

(***************************************************************************)
(* updateActiveMenuItem (main.js:74-97)                                    *)
(***************************************************************************)
\* variant: the lower end of the interval is excluded
InSectionOpenBelow(s, p) == p > s.top /\ p < s.top + s.height

InSection(s, p) == p >= s.top /\ p < s.top + s.height

\* variant: the first matching section is kept
RECURSIVE CurrentSectionFirst(_, _, _)
CurrentSectionFirst(k, cur, p) ==
  IF k > Len(page.sections) THEN cur
  ELSE CurrentSectionFirst(k + 1,
                           IF InSection(page.sections[k], p) /\ cur = <<>>
                           THEN page.sections[k].id ELSE cur,
                           p)

\* the sections.forEach loop: the last matching section overwrites
RECURSIVE CurrentSectionFrom(_, _, _)
CurrentSectionFrom(k, cur, p) ==
  IF k > Len(page.sections) THEN cur
  ELSE CurrentSectionFrom(k + 1,
                          IF InSection(page.sections[k], p) THEN page.sections[k].id ELSE cur,
                          p)

\* variant: the probe point is the scroll offset itself
CurrentSectionAtOffset(y) == CurrentSectionFrom(1, <<>>, y)

CurrentSection(y) == CurrentSectionFrom(1, <<>>, y + scrollProbe)

\* variant: 'active' is added on a match but never removed
UpdateActiveMenuItemAddOnly(y) ==
  [i \in Links |-> linkActive[i] \/ Href(i) = Hash \o CurrentSection(y)]

\* variant: the links are left as they are when no section is current
UpdateActiveMenuItemSticky(y) ==
  [i \in Links |-> IF CurrentSection(y) = <<>> THEN linkActive[i]
                   ELSE Href(i) = Hash \o CurrentSection(y)]

\* the navLinks.forEach loop: remove 'active', add it back on a match
UpdateActiveMenuItem(y) ==
  [i \in Links |-> Href(i) = Hash \o CurrentSection(y)]

(***************************************************************************)
(* smoothScrollTo (main.js:60-69)                                          *)
(***************************************************************************)
\* variant: the viewport-relative top is used as if it were document-relative
OffsetPositionViewport(target) == BoundingClientRectTop(target) - headerOffset

OffsetPosition(target) == BoundingClientRectTop(target) + pageYOffset - headerOffset

(***************************************************************************)
(* User input                                                              *)
(***************************************************************************)
Boundaries ==
  {page.sections[k].top : k \in 1..Len(page.sections)}
    \cup {page.sections[k].top + page.sections[k].height : k \in 1..Len(page.sections)}

\* the offsets a user scroll may stop at: both ends of the scrollable range
\* and every offset whose probe point lies within Slack of a boundary
ScrollStops ==
  {0, page.maxScroll}
    \cup {y \in {b + d - scrollProbe : b \in Boundaries, d \in (0 - Slack)..Slack} :
            0 <= y /\ y <= page.maxScroll}

ClickTargets ==
  {[kind |-> "link", link |-> i] : i \in Links}
    \cup {[kind |-> k, link |-> 0] : k \in {"toggle", "toggleChild", "panel", "outside"}}

TargetExists(t) ==
  CASE t.kind \in {"toggle", "toggleChild"} -> page.hasToggle
    [] t.kind = "panel" -> page.hasMenu
    [] OTHER -> TRUE

\* variant: only navMenu.contains(e.target) is tested
IsClickInsidePanel(t) ==
  CASE t.kind = "panel" -> TRUE
    [] t.kind = "link" -> page.links[t.link].inMenu
    [] OTHER -> FALSE

\* variant: only navToggle.contains(e.target) is tested
IsClickInsideToggle(t) == t.kind \in {"toggle", "toggleChild"}

\* variant: every click counts as inside
IsClickAnywhere(t) == TRUE

\* navMenu.contains(e.target) || navToggle.contains(e.target)
IsClickInsideNav(t) ==
  CASE t.kind \in {"toggle", "toggleChild", "panel"} -> TRUE
    [] t.kind = "link" -> page.links[t.link].inMenu
    [] OTHER -> FALSE

\* initMobileMenu returns before binding when either element is missing
MenuBound == page.hasMenu /\ page.hasToggle

\* listeners a click reaches, in bubbling order
Listeners(t) ==
  (CASE t.kind = "link" -> <<"link">>
     [] t.kind \in {"toggle", "toggleChild"} -> IF MenuBound THEN <<"toggle">> ELSE <<>>
     [] OTHER -> <<>>)
    \o (IF MenuBound THEN <<"document">> ELSE <<>>)

NoEvent ==
  [type |-> "none", target |-> [kind |-> "none", link |-> 0],
   defaultPrevented |-> FALSE, scrollCalls |-> <<>>, threw |-> FALSE,
   menuBefore |-> FALSE, yBefore |-> 0, returned |-> FALSE]

(***************************************************************************)
(* Form validator (main.js:143-286)                                        *)
(***************************************************************************)
Fields == {"name", "email", "message"}

Whitespace == {" ", "\t", "\n"}

\* String.prototype.trim
RECURSIVE TrimStart(_)
TrimStart(s) ==
  IF s # <<>> /\ Head(s) \in Whitespace THEN TrimStart(Tail(s)) ELSE s

RECURSIVE TrimEnd(_)
TrimEnd(s) ==
  IF s # <<>> /\ s[Len(s)] \in Whitespace THEN TrimEnd(SubSeq(s, 1, Len(s) - 1)) ELSE s

\* variant: only leading whitespace is removed
TrimStartOnly(s) == TrimStart(s)

Trim(s) == TrimEnd(TrimStart(s))

\* the character class [^\s@]
Plain(c) == c \notin Whitespace /\ c # "@"

\* variant: /^[^\s@]+@[^\s@]+$/, no dot required after the '@'
EmailRegexNoDot(s) ==
  \E i \in 1..Len(s) :
     /\ 1 < i /\ i < Len(s)
     /\ s[i] = "@"
     /\ \A k \in 1..Len(s) : k # i => Plain(s[k])

\* /^[^\s@]+@[^\s@]+\.[^\s@]+$/.test(s)
EmailRegexTest(s) ==
  \E i \in 1..Len(s) : \E j \in 1..Len(s) :
     /\ 1 < i /\ i + 1 < j /\ j < Len(s)
     /\ s[i] = "@" /\ s[j] = "."
     /\ \A k \in 1..Len(s) : k # i => Plain(s[k])

\* variant: the labels table is missing, the field name is used
GetFieldLabelRaw(fieldName) == fieldName

\* getFieldLabel (main.js:279-286)
GetFieldLabel(fieldName) ==
  CASE fieldName = "name" -> "Nama"
    [] fieldName = "email" -> "Email"
    [] fieldName = "message" -> "Pesan"
    [] OTHER -> fieldName

\* texts are the pieces the template literal concatenates
MsgRequired(fieldName) == <<GetFieldLabel(fieldName), " harus diisi">>
MsgEmailFormat == <<"Format email tidak valid">>
MsgSuccess == <<"Pesan berhasil dikirim! Terima kasih.">>

\* variant: the previous error is not cleared and the error class is toggled
\* instead of added
ValidateFieldToggling(fieldName, v) ==
  LET val == Trim(v)
  IN IF val = <<>>
     THEN [valid |-> FALSE, error |-> ~fieldError[fieldName],
           text |-> MsgRequired(fieldName)]
     ELSE IF fieldName = "email" /\ ~EmailRegexTest(val)
     THEN [valid |-> FALSE, error |-> ~fieldError[fieldName], text |-> MsgEmailFormat]
     ELSE [valid |-> TRUE, error |-> FALSE, text |-> <<>>]

\* validateField (main.js:201-228): the previous error is cleared first, so
\* the outcome depends on the field's name and current value only
ValidateField(fieldName, v) ==
  LET val == Trim(v)
  IN IF val = <<>>
     THEN [valid |-> FALSE, error |-> TRUE, text |-> MsgRequired(fieldName)]
     ELSE IF fieldName = "email" /\ ~EmailRegexTest(val)
     THEN [valid |-> FALSE, error |-> TRUE, text |-> MsgEmailFormat]
     ELSE [valid |-> TRUE, error |-> FALSE, text |-> <<>>]

\* variant: validation stops at the first invalid field
ValidateUntilInvalid(vals) ==
  LET ok == [valid |-> TRUE, error |-> FALSE, text |-> <<>>]
      n == ValidateField("name", vals["name"])
      e == IF n.valid THEN ValidateField("email", vals["email"])
           ELSE [ok EXCEPT !.valid = FALSE]
      m == IF e.valid THEN ValidateField("message", vals["message"])
           ELSE [ok EXCEPT !.valid = FALSE]
  IN [f \in Fields |-> CASE f = "name" -> n [] f = "email" -> e [] OTHER -> m]

\* main.js:174-187: the three validateField calls of handleFormSubmit, none
\* of them skipped
ValidateAll(vals) == [f \in Fields |-> ValidateField(f, vals[f])]

\* variant: the fields keep what was typed
ResetNothing(vals) == vals

\* main.js:192  form.reset(): every field back to its (empty) default
ResetForm(vals) == [f \in Fields |-> <<>>]

\* what the user may type into a field
Empty == <<>>
Blank == <<" ">>
Word == <<"h", "i">>
Mail == <<"a", "@", "b", ".", "c">>
PaddedMail == <<" ", "a", "@", "b", ".", "c", " ">>
HalfMail == <<"a", "@", "b">>

FieldValues == {Empty, Blank, Word, Mail, PaddedMail}
FewValues == {Empty, Mail}

(***************************************************************************)
(* Initial state: the page as loaded, after the DOMContentLoaded handlers  *)
(***************************************************************************)
Init ==
  /\ page \in Pages
  /\ pageYOffset = 0
  /\ linkActive = [i \in 1..Len(page.links) |-> page.links[i].active]
  /\ menuActive = FALSE
  /\ toggleActive = FALSE
  /\ queue = <<>>
  /\ event = NoEvent
  /\ scrollPending = FALSE
  /\ scrollTarget = NoTarget
  /\ value = [f \in Fields |-> <<>>]
  /\ fieldError = [f \in Fields |-> FALSE]
  /\ errorText = [f \in Fields |-> <<>>]
  /\ successShow = FALSE
  /\ successText = <<>>
  /\ timers = <<>>

(***************************************************************************)
(* Events                                                                  *)
(***************************************************************************)
Idle == queue = <<>>

\* the browser dispatches a click: the listeners run one after the other
Click(t) ==
  /\ Idle
  /\ TargetExists(t)
  /\ event' = [type |-> "click", target |-> t, defaultPrevented |-> FALSE,
               scrollCalls |-> <<>>, threw |-> FALSE,
               menuBefore |-> menuActive, yBefore |-> pageYOffset,
               returned |-> FALSE]
  /\ queue' = Listeners(t)
  /\ UNCHANGED <<page, pageYOffset, linkActive, menuActive, toggleActive,
                 scrollPending, scrollTarget>>
  /\ UNCHANGED formVars

\* variant: the class is left as it is
ClosedNever(open, cls) == cls

\* main.js:43-46: classList.remove('active') when the panel carries it
ClosedIfOpen(open, cls) == IF open THEN FALSE ELSE cls

\* main.js:27-49, the click listener of a .nav-link
LinkClickHandler ==
  /\ queue # <<>> /\ Head(queue) = "link"
  /\ LET href == Href(event.target.link)
         targetId == Substring1(href)
         targetSection == GetElementById(targetId)
         scrolled == [event EXCEPT !.defaultPrevented = TRUE,
                        !.scrollCalls = Append(@, OffsetPosition(targetSection))]
     IN IF ~StartsWithHash(href)
        THEN UNCHANGED <<event, menuActive, toggleActive, scrollTarget>>
        ELSE IF targetSection = null
        THEN /\ event' = [event EXCEPT !.defaultPrevented = TRUE]
             /\ UNCHANGED <<menuActive, toggleActive, scrollTarget>>
        ELSE \* smoothScrollTo(targetSection), then close the menu
             /\ scrollTarget' = <<OffsetPosition(targetSection)>>
             /\ IF ~page.hasMenu
                THEN \* navMenu is null: navMenu.classList throws a TypeError
                     /\ event' = [scrolled EXCEPT !.threw = TRUE]
                     /\ UNCHANGED <<menuActive, toggleActive>>
                ELSE IF menuActive /\ ~page.hasToggle
                THEN \* navToggle is null: navToggle.classList throws
                     /\ event' = [scrolled EXCEPT !.threw = TRUE]
                     /\ menuActive' = ClosedIfOpen(menuActive, menuActive)
                     /\ UNCHANGED toggleActive
                ELSE /\ event' = scrolled
                     /\ menuActive' = ClosedIfOpen(menuActive, menuActive)
                     /\ toggleActive' = ClosedIfOpen(menuActive, toggleActive)
  /\ queue' = Tail(queue)
  /\ UNCHANGED <<page, pageYOffset, linkActive, scrollPending>>
  /\ UNCHANGED formVars

\* main.js:114-117, the click listener of .nav-toggle
ToggleClickHandler ==
  /\ queue # <<>> /\ Head(queue) = "toggle"
  /\ menuActive' = ~menuActive
  /\ toggleActive' = ~toggleActive
  /\ queue' = Tail(queue)
  /\ UNCHANGED <<page, pageYOffset, linkActive, event, scrollPending, scrollTarget>>
  /\ UNCHANGED formVars

\* variant: only the panel loses 'active'
DocumentClickHandlerPanelOnly ==
  /\ queue # <<>> /\ Head(queue) = "document"
  /\ IF ~IsClickInsideNav(event.target) /\ menuActive
     THEN menuActive' = FALSE /\ UNCHANGED toggleActive
     ELSE UNCHANGED <<menuActive, toggleActive>>
  /\ queue' = Tail(queue)
  /\ UNCHANGED <<page, pageYOffset, linkActive, event, scrollPending, scrollTarget>>
  /\ UNCHANGED formVars

\* main.js:120-127, the click listener of the document
DocumentClickHandler ==
  /\ queue # <<>> /\ Head(queue) = "document"
  /\ IF ~IsClickInsideNav(event.target) /\ menuActive
     THEN menuActive' = FALSE /\ toggleActive' = FALSE
     ELSE UNCHANGED <<menuActive, toggleActive>>
  /\ queue' = Tail(queue)
  /\ UNCHANGED <<page, pageYOffset, linkActive, event, scrollPending, scrollTarget>>
  /\ UNCHANGED formVars

\* the user scrolls: the offset changes, a scroll event is due, and a
\* smooth scroll in progress is abandoned
UserScroll(y) ==
  /\ Idle
  /\ y # pageYOffset
  /\ pageYOffset' = y
  /\ scrollPending' = TRUE
  /\ scrollTarget' = NoTarget
  /\ UNCHANGED <<page, linkActive, menuActive, toggleActive, queue, event>>
  /\ UNCHANGED formVars

\* one frame of the smooth scroll requested by window.scrollTo
SmoothScrollStep(y) ==
  /\ Idle
  /\ scrollTarget # NoTarget
  /\ LET goal == Clamp(scrollTarget[1])
     IN /\ \/ y = goal
           \/ pageYOffset < y /\ y < goal
           \/ goal < y /\ y < pageYOffset
        /\ pageYOffset' = y
        /\ scrollPending' = (scrollPending \/ y # pageYOffset)
        /\ scrollTarget' = IF y = goal THEN NoTarget ELSE scrollTarget
  /\ UNCHANGED <<page, linkActive, menuActive, toggleActive, queue, event>>
  /\ UNCHANGED formVars

\* variant: a scroll also closes the mobile menu
ScrollHandlerClosingMenu ==
  /\ Idle
  /\ scrollPending
  /\ linkActive' = UpdateActiveMenuItem(pageYOffset)
  /\ scrollPending' = FALSE
  /\ event' = [NoEvent EXCEPT !.type = "scroll"]
  /\ menuActive' = FALSE
  /\ toggleActive' = FALSE
  /\ UNCHANGED <<page, pageYOffset, queue, scrollTarget>>
  /\ UNCHANGED formVars

\* main.js:53, the scroll listener of the window
ScrollHandler ==
  /\ Idle
  /\ scrollPending
  /\ linkActive' = UpdateActiveMenuItem(pageYOffset)
  /\ scrollPending' = FALSE
  /\ event' = [NoEvent EXCEPT !.type = "scroll"]
  /\ UNCHANGED <<page, pageYOffset, menuActive, toggleActive, queue, scrollTarget>>
  /\ UNCHANGED formVars

\* the user edits a field
Input(f, v) ==
  /\ Idle
  /\ page.hasForm
  /\ value[f] # v
  /\ value' = [value EXCEPT ![f] = v]
  /\ UNCHANGED <<page, queue, event, fieldError, errorText, successShow, successText, timers>>
  /\ UNCHANGED navVars

\* variant: the trimmed value is written back into the field
BlurHandlerTrimming(f) ==
  /\ Idle
  /\ page.hasForm
  /\ LET r == ValidateField(f, value[f])
     IN /\ fieldError' = [fieldError EXCEPT ![f] = r.error]
        /\ errorText' = [errorText EXCEPT ![f] = r.text]
  /\ value' = [value EXCEPT ![f] = Trim(value[f])]
  /\ event' = [NoEvent EXCEPT !.type = "blur", !.target = [kind |-> f, link |-> 0],
                 !.returned = ValidateField(f, value[f]).valid]
  /\ UNCHANGED <<page, queue, successShow, successText, timers>>
  /\ UNCHANGED navVars

\* variant: an error is set on an invalid value but a previous error is
\* never cleared
BlurHandlerNoClear(f) ==
  /\ Idle
  /\ page.hasForm
  /\ LET r == ValidateField(f, value[f])
     IN /\ fieldError' = [fieldError EXCEPT ![f] = @ \/ r.error]
        /\ errorText' = [errorText EXCEPT ![f] = IF r.error THEN r.text ELSE @]
  /\ event' = [NoEvent EXCEPT !.type = "blur", !.target = [kind |-> f, link |-> 0],
                 !.returned = ValidateField(f, value[f]).valid]
  /\ UNCHANGED <<page, queue, value, successShow, successText, timers>>
  /\ UNCHANGED navVars

\* main.js:153-155, the blur listener of a .form-input
BlurHandler(f) ==
  /\ Idle
  /\ page.hasForm
  /\ LET r == ValidateField(f, value[f])
     IN /\ fieldError' = [fieldError EXCEPT ![f] = r.error]
        /\ errorText' = [errorText EXCEPT ![f] = r.text]
  /\ event' = [NoEvent EXCEPT !.type = "blur", !.target = [kind |-> f, link |-> 0],
                 !.returned = ValidateField(f, value[f]).valid]
  /\ UNCHANGED <<page, queue, value, successShow, successText, timers>>
  /\ UNCHANGED navVars

\* handleFormSubmit (main.js:163-194) with clearErrors, showSuccessMessage
\* and form.reset()
SubmitHandler ==
  /\ Idle
  /\ page.hasForm
  /\ LET r == ValidateAll(value)
         isValid == r["name"].valid /\ r["email"].valid /\ r["message"].valid
     IN /\ isValid => Len(timers) < MaxTimers
        /\ fieldError' = [f \in Fields |-> r[f].error]
        /\ errorText' = [f \in Fields |-> r[f].text]
        /\ IF isValid
           THEN /\ successText' = MsgSuccess
                /\ successShow' = TRUE
                /\ timers' = Append(timers, hideDelay)
                /\ value' = ResetForm(value)
           ELSE UNCHANGED <<successText, successShow, timers, value>>
        /\ event' = [NoEvent EXCEPT !.type = "submit", !.defaultPrevented = TRUE]
  /\ UNCHANGED <<page, queue>>
  /\ UNCHANGED navVars

\* time passes: every pending timer gets closer to its deadline
Tick(d) ==
  /\ Idle
  /\ \E k \in 1..Len(timers) : timers[k] > 0
  /\ timers' = [k \in 1..Len(timers) |-> IF timers[k] > d THEN timers[k] - d ELSE 0]
  /\ UNCHANGED <<page, queue, event, value, fieldError, errorText, successShow, successText>>
  /\ UNCHANGED navVars

\* variant: the callback leaves the success element as it is
TimerHandlerKeepsShow ==
  /\ Idle
  /\ timers # <<>> /\ Head(timers) = 0
  /\ timers' = Tail(timers)
  /\ event' = [NoEvent EXCEPT !.type = "timer"]
  /\ UNCHANGED <<page, queue, value, fieldError, errorText, successShow, successText>>
  /\ UNCHANGED navVars

\* main.js:268-270, the callback of the oldest timer that is due
TimerHandler ==
  /\ Idle
  /\ timers # <<>> /\ Head(timers) = 0
  /\ successShow' = FALSE
  /\ timers' = Tail(timers)
  /\ event' = [NoEvent EXCEPT !.type = "timer"]
  /\ UNCHANGED <<page, queue, value, fieldError, errorText, successText>>
  /\ UNCHANGED navVars

\* the clock is observed every half delay
TickSteps == {hideDelay \div 2}

NavEvents ==
  \/ \E t \in ClickTargets : Click(t)
  \/ LinkClickHandler
  \/ ToggleClickHandler
  \/ DocumentClickHandler
  \/ \E y \in ScrollStops : UserScroll(y)
  \/ \E y \in ScrollStops \cup {Clamp(scrollTarget[k]) : k \in 1..Len(scrollTarget)} :
        SmoothScrollStep(y)
  \/ ScrollHandler

FormEvents(typed) ==
  \/ \E f \in Fields : \E v \in typed : Input(f, v)
  \/ \E f \in Fields : BlurHandler(f)
  \/ SubmitHandler
  \/ \E d \in TickSteps : Tick(d)
  \/ TimerHandler

\* the whole page, small: one section, two texts to type, and the clock
\* observed once per delay
InitAll == Init /\ page = PageMini
NextAll ==
  \/ NavEvents
  \/ \E f \in Fields : \E v \in FewValues : Input(f, v)
  \/ \E f \in Fields : BlurHandler(f)
  \/ SubmitHandler
  \/ Tick(hideDelay)
  \/ TimerHandler
Spec == InitAll /\ [][NextAll]_vars

\* the navigation and menu controllers on every page
NextNav == NavEvents
SpecNav == Init /\ [][NextNav]_vars

\* the form validator
NextForm == FormEvents(FieldValues)
SpecForm == InitAll /\ [][NextForm]_vars

\* validateField on its own: every string over a small alphabet up to
\* MaxLen characters, and the addresses of tests/form.test.js
MaxLen == 6

Alphabet == {" ", "a", "@", "."}

Strings == UNION {[1..n -> Alphabet] : n \in 0..MaxLen}

\* tests/form.test.js:92-96
ValidEmails ==
  {<<"t", "e", "s", "t", "@", "e", "x", "a", "m", "p", "l", "e", ".", "c", "o", "m">>,
   <<"u", "s", "e", "r", ".", "n", "a", "m", "e", "@", "e", "x", "a", "m", "p", "l", "e", ".", "c", "o", "m">>,
   <<"u", "s", "e", "r", "+", "t", "a", "g", "@", "e", "x", "a", "m", "p", "l", "e", ".", "c", "o", ".", "u", "k">>}

\* tests/form.test.js:106-112
InvalidEmails ==
  {<<"n", "o", "t", "a", "n", "e", "m", "a", "i", "l">>,
   <<"@", "e", "x", "a", "m", "p", "l", "e", ".", "c", "o", "m">>,
   <<"u", "s", "e", "r", "@">>,
   <<"u", "s", "e", "r", " ", "@", "e", "x", "a", "m", "p", "l", "e", ".", "c", "o", "m">>,
   <<"u", "s", "e", "r", "@", "e", "x", "a", "m", "p", "l", "e">>}

ValidateInputs == Strings \cup ValidEmails \cup InvalidEmails \cup {PaddedMail, HalfMail}

\* the same text sits in each field; either nothing has been validated yet,
\* or the empty form was submitted before the text was typed, so that every
\* field still carries the error of that submit
InitValidate ==
  /\ page = PageMini
  /\ pageYOffset = 0
  /\ linkActive = [i \in 1..Len(page.links) |-> page.links[i].active]
  /\ menuActive = FALSE
  /\ toggleActive = FALSE
  /\ queue = <<>>
  /\ scrollPending = FALSE
  /\ scrollTarget = NoTarget
  /\ \E s \in ValidateInputs : value = [f \in Fields |-> s]
  /\ \E stale \in BOOLEAN :
        /\ event = IF stale
                   THEN [NoEvent EXCEPT !.type = "submit", !.defaultPrevented = TRUE]
                   ELSE NoEvent
        /\ fieldError = [f \in Fields |-> stale]
        /\ errorText = [f \in Fields |-> IF stale THEN MsgRequired(f) ELSE <<>>]
  /\ successShow = FALSE
  /\ successText = <<>>
  /\ timers = <<>>

NextValidate == \E f \in Fields : BlurHandler(f)
SpecValidate == InitValidate /\ [][NextValidate]_vars

(***************************************************************************)
(* Properties                                                              *)
(***************************************************************************)
ActiveLinks == {i \in Links : linkActive[i]}

\* the last scroll event has been handled and the offset has not moved since
ScrollHandled == event.type = "scroll" /\ ~scrollPending

\* the sections whose interval [top, top+height) contains p
Containing(p) ==
  {k \in 1..Len(page.sections) :
     page.sections[k].top <= p /\ p < page.sections[k].top + page.sections[k].height}

Targets(i, k) == Href(i) = <<"#">> \o page.sections[k].id

\* a click on link i or on target kind has been dispatched and all its
\* listeners have run
ClickDone == event.type = "click" /\ queue = <<>>
OnToggle == event.target.kind \in {"toggle", "toggleChild"}
OnLink == event.target.kind = "link"
OutsideNav ==
  \/ event.target.kind = "outside"
  \/ OnLink /\ ~page.links[event.target.link].inMenu

\* the ids carried by some element of the page
Ids == {page.sections[k].id : k \in 1..Len(page.sections)} \cup {a.id : a \in page.anchors}
TopOf(id) ==
  IF \E k \in 1..Len(page.sections) : page.sections[k].id = id
  THEN page.sections[CHOOSE k \in 1..Len(page.sections) : page.sections[k].id = id].top
  ELSE (CHOOSE a \in page.anchors : a.id = id).top
IsFragment(h) == h # <<>> /\ Head(h) = "#"
HasTarget(h) == IsFragment(h) /\ Tail(h) \in Ids

\* C1: in every reachable state at most one navigation link carries 'active'
C1_AtMostOneActive == Cardinality(ActiveLinks) <= 1

\* C1 witness: a scroll event moved 'active' from the link marked in the
\* markup to another link
C1_Witness ==
  /\ ScrollHandled
  /\ \E i \in Links : \E j \in Links :
        i # j /\ linkActive[i] /\ page.links[j].active /\ ~linkActive[j]

\* C2: after a scroll event, when one section's half-open interval contains
\* P = offset + 100, exactly the links whose href is '#' + that section's id
\* are active
C2_ActiveIffTargetsContaining ==
  ScrollHandled =>
    \A k \in 1..Len(page.sections) :
       Containing(pageYOffset + 100) = {k} =>
          \A i \in Links : linkActive[i] <=> Targets(i, k)

\* C2 witness: P equals the top of a section, whose link became active
\* while the link that was active before lost the class
C2_Witness ==
  /\ ScrollHandled
  /\ \E k \in 1..Len(page.sections) :
        /\ pageYOffset + 100 = page.sections[k].top
        /\ Containing(pageYOffset + 100) = {k}
        /\ \E i \in Links : Targets(i, k) /\ linkActive[i]
  /\ \E j \in Links : page.links[j].active /\ ~linkActive[j]

\* C3 (as claimed): after a scroll event at which no section contains P, no
\* link is active, whatever the hrefs are
C3_NoSectionNoActive ==
  (ScrollHandled /\ Containing(pageYOffset + 100) = {}) => ActiveLinks = {}

\* C4: when two or more sections contain P, the last of them in document
\* order is current: exactly the links targeting it are active
C4_LastOverlappingWins ==
  (ScrollHandled /\ Cardinality(Containing(pageYOffset + 100)) >= 2) =>
    LET last == CHOOSE k \in Containing(pageYOffset + 100) :
                   \A j \in Containing(pageYOffset + 100) : j <= k
    IN \A i \in Links : linkActive[i] <=> Targets(i, last)

\* C4 witness: three sections contain P and one link is active
C4_Witness ==
  /\ ScrollHandled
  /\ Cardinality(Containing(pageYOffset + 100)) >= 3
  /\ ActiveLinks # {}

\* C5: a click on the toggle button or inside it flips the menu; the flip
\* is there after the button's listener and still there after the
\* document's listener
C5_ToggleClickFlips ==
  (MenuBound /\ event.type = "click" /\ OnToggle /\ queue \in {<<>>, <<"document">>}) =>
    /\ menuActive = ~event.menuBefore
    /\ toggleActive = ~event.menuBefore

\* C5 witness: a click inside the button opened a closed menu and both
\* listeners have run
C5_Witness ==
  /\ ClickDone /\ event.target.kind = "toggleChild"
  /\ ~event.menuBefore /\ menuActive /\ toggleActive

\* C6: the panel carries 'active' exactly when the toggle button does
C6_PanelAndToggleInSync == menuActive = toggleActive

\* C6 witness: the menu was closed by a click outside after being opened
C6_Witness ==
  /\ ClickDone /\ event.target.kind = "outside"
  /\ event.menuBefore /\ ~menuActive /\ ~toggleActive

\* C7: after a click outside the panel and the toggle button while the menu
\* was open, neither carries 'active'
C7_OutsideClickCloses ==
  (ClickDone /\ OutsideNav /\ event.menuBefore) => (~menuActive /\ ~toggleActive)

\* C7 witness: an outside click found the menu open and left it closed
C7_Witness ==
  /\ ClickDone /\ event.target.kind = "outside" /\ event.menuBefore
  /\ ~menuActive

\* C8: the menu state changes only by a toggle click (flip), by the
\* document listener on an outside click while open (close) or by a
\* navigation-link click while open (close)
C8_MenuChangesOnlyAsListed ==
  [][(menuActive' # menuActive \/ toggleActive' # toggleActive) =>
       /\ queue # <<>>
       /\ \/ /\ Head(queue) = "toggle"
             /\ menuActive' = ~menuActive /\ toggleActive' = ~toggleActive
          \/ /\ Head(queue) = "document" /\ OutsideNav
             /\ menuActive /\ ~menuActive' /\ ~toggleActive'
          \/ /\ Head(queue) = "link"
             /\ menuActive /\ ~menuActive' /\ ~toggleActive']_vars

\* C8 witness: the hide timer fired while the menu was open and left it open
C8_Witness == event.type = "timer" /\ menuActive /\ toggleActive

\* C9 (as claimed): after a click on a link with a fragment href while the
\* menu was open, the menu is closed
C9_FragmentClickCloses ==
  (ClickDone /\ OnLink /\ event.menuBefore /\ IsFragment(Href(event.target.link)))
    => (~menuActive /\ ~toggleActive)

\* C9 (amended): after a click on a link whose fragment names an existing
\* element while the menu was open, the menu is closed
C9_ResolvedFragmentClickCloses ==
  (ClickDone /\ OnLink /\ event.menuBefore /\ HasTarget(Href(event.target.link)))
    => (~menuActive /\ ~toggleActive)

\* C9 witness: a link inside the panel with an existing target was clicked
\* while the menu was open
C9_Witness ==
  /\ ClickDone /\ OnLink /\ event.menuBefore
  /\ page.links[event.target.link].inMenu
  /\ HasTarget(Href(event.target.link))
  /\ ~menuActive

\* C10: a click on a link whose fragment names an existing element prevents
\* the default and requests exactly one scroll, to the element's
\* document-relative top minus 80
C10_OneScrollToTopMinus80 ==
  (event.type = "click" /\ OnLink /\ (queue = <<>> \/ Head(queue) # "link")
     /\ HasTarget(Href(event.target.link)))
    => /\ event.defaultPrevented
       /\ event.scrollCalls = <<TopOf(Tail(Href(event.target.link))) - 80>>

\* C10 witness: the click happened while the page was scrolled
C10_Witness ==
  /\ ClickDone /\ OnLink /\ event.yBefore > 0
  /\ HasTarget(Href(event.target.link))
  /\ Len(event.scrollCalls) = 1

\* ---- form validation -----------------------------------------------------

\* the value consists of whitespace only (or of nothing)
IsBlank(v) == \A k \in 1..Len(v) : v[k] \in {" ", "\t", "\n"}

\* the value without its leading and trailing whitespace
CoreOf(v) ==
  IF IsBlank(v) THEN <<>>
  ELSE LET inked == {k \in 1..Len(v) : v[k] \notin {" ", "\t", "\n"}}
           first == CHOOSE k \in inked : \A j \in inked : k <= j
           last == CHOOSE k \in inked : \A j \in inked : j <= k
       IN SubSeq(v, first, last)

\* a non-empty run of characters that are neither whitespace nor '@'
PlainRun(x) ==
  Len(x) >= 1 /\ \A k \in 1..Len(x) : x[k] \notin {" ", "\t", "\n", "@"}

\* local part, '@', domain part, '.', last part
EmailShaped(s) ==
  \E a \in 1..Len(s) : \E d \in 1..Len(s) :
     /\ a < d
     /\ s[a] = "@" /\ s[d] = "."
     /\ PlainRun(SubSeq(s, 1, a - 1))
     /\ PlainRun(SubSeq(s, a + 1, d - 1))
     /\ PlainRun(SubSeq(s, d + 1, Len(s)))

InvalidValue(f, v) == IsBlank(v) \/ (f = "email" /\ ~EmailShaped(CoreOf(v)))

LabelOf(f) == CASE f = "name" -> "Nama" [] f = "email" -> "Email" [] f = "message" -> "Pesan"

\* the step is a run of the submit listener / of the blur listener of f
SubmitStep == event'.type = "submit" /\ SubmitHandler
BlurStep(f) == event'.type = "blur" /\ event'.target.kind = f /\ BlurHandler(f)

\* C11: the click listener of a link whose href does not start with '#'
\* prevents no default, requests no scroll and changes neither the menu
\* classes nor any link's 'active'
C11_ExternalLinkUntouched ==
  [][(queue # <<>> /\ Head(queue) = "link" /\ queue' = Tail(queue)
        /\ ~IsFragment(Href(event.target.link)))
       => /\ ~event'.defaultPrevented
          /\ event'.scrollCalls = <<>>
          /\ UNCHANGED <<scrollTarget, menuActive, toggleActive, linkActive>>]_vars

\* C11 witness: an external link was clicked while the menu was open
C11_Witness ==
  /\ ClickDone /\ OnLink /\ ~IsFragment(Href(event.target.link))
  /\ event.menuBefore /\ menuActive /\ ~event.defaultPrevented

\* C12: a submit leaves each field with the error class and a non-empty
\* error text exactly when its value is invalid, prevents the default, and
\* with an invalid field neither resets the form nor shows the success
\* message
C12_SubmitMarksExactlyInvalid ==
  [][SubmitStep =>
       /\ \A f \in Fields :
             /\ fieldError'[f] = InvalidValue(f, value[f])
             /\ (errorText'[f] # <<>>) = InvalidValue(f, value[f])
       /\ event'.defaultPrevented
       /\ (\E f \in Fields : InvalidValue(f, value[f]))
            => (value' = value /\ UNCHANGED <<successShow, successText, timers>>)]_vars

\* C12 witness: a submit with three invalid fields marked all three
C12_Witness ==
  /\ event.type = "submit"
  /\ value["name"] = <<" ">> /\ value["email"] = <<"h", "i">> /\ value["message"] = <<>>
  /\ \A f \in Fields : fieldError[f] /\ errorText[f] # <<>>
  /\ ~successShow

\* C13: validateField returns false and marks the field for a blank value
\* and for an email that fails the pattern; otherwise it returns true and
\* leaves no error class and an empty error text
C13_ValidateFieldOutcome ==
  [][\A f \in Fields : BlurStep(f) =>
        IF IsBlank(value[f]) \/ (f = "email" /\ ~EmailShaped(CoreOf(value[f])))
        THEN ~event'.returned /\ fieldError'[f]
        ELSE event'.returned /\ ~fieldError'[f] /\ errorText'[f] = <<>>]_vars

\* C13 witness: a non-blank email that fails the pattern was rejected
C13_Witness ==
  /\ event.type = "blur" /\ event.target.kind = "email"
  /\ ~IsBlank(value["email"])
  /\ ~event.returned /\ fieldError["email"]

\* C14: the email field is accepted exactly when its trimmed value is a
\* plain run, '@', a plain run, '.', a plain run
C14_EmailPatternShape ==
  [][BlurStep("email") =>
       (event'.returned <=> EmailShaped(CoreOf(value["email"])))]_vars

\* C14 witness: an address of the test suite was accepted
C14_Witness ==
  /\ event.type = "blur" /\ event.target.kind = "email"
  /\ value["email"] \in ValidEmails
  /\ event.returned /\ ~fieldError["email"]

\* C15 (as claimed): every marked field shows its label followed by the one
\* fixed suffix
C15_LabelPlusSuffix ==
  \A f \in Fields : fieldError[f] => errorText[f] = <<LabelOf(f), " harus diisi">>

\* C15 (amended): a field that is blank shows its label followed by the
\* fixed suffix; an email that is not blank but fails the pattern shows the
\* fixed format text
C15_LabelPlusSuffixWhenBlank ==
  [][\A f \in Fields : (BlurStep(f) \/ SubmitStep) =>
        /\ IsBlank(value[f]) => errorText'[f] = <<LabelOf(f), " harus diisi">>
        /\ (~IsBlank(value[f]) /\ fieldError'[f])
             => (f = "email" /\ errorText'[f] = <<"Format email tidak valid">>)]_vars

\* C15 witness: a submit marked a blank message and a malformed email
C15_Witness ==
  /\ event.type = "submit"
  /\ fieldError["message"] /\ errorText["message"] = <<"Pesan", " harus diisi">>
  /\ fieldError["email"] /\ errorText["email"] = <<"Format email tidak valid">>

\* C16: a submit with three valid fields shows the success text, empties
\* the fields, leaves no error mark and schedules one hide 5000 ms later
C16_ValidSubmitSucceeds ==
  [][(SubmitStep /\ \A f \in Fields : ~InvalidValue(f, value[f])) =>
       /\ successShow'
       /\ successText' = <<"Pesan berhasil dikirim! Terima kasih.">>
       /\ \A f \in Fields : value'[f] = <<>> /\ ~fieldError'[f] /\ errorText'[f] = <<>>
       /\ timers' = Append(timers, 5000)]_vars

\* C16 witness: the state right after a successful submit
C16_Witness ==
  /\ event.type = "submit" /\ successShow
  /\ timers # <<>> /\ timers[Len(timers)] = 5000
  /\ \A f \in Fields : value[f] = <<>> /\ ~fieldError[f]

\* C17 (as claimed): the success message is hidden only once 5000 ms have
\* passed since the latest successful submission
C17_HiddenOnlyAfterFullDelay ==
  [][(successShow /\ ~successShow') =>
       (timers # <<>> /\ timers[Len(timers)] = 0)]_vars

\* C18 (as claimed): at most one hide timer is pending at any time
C18_AtMostOneTimer == Len(timers) <= 1

\* C19 (as claimed): after a submit that marked a field, the success
\* message is not visible
C19_NoSuccessWithErrors ==
  (event.type = "submit" /\ \E f \in Fields : fieldError[f]) => ~successShow

\* C20: a blur, and a submit with an invalid field, change no field value
\* and nothing but the error classes and error texts
C20_ValidationKeepsValues ==
  [][((\E f \in Fields : BlurStep(f))
        \/ (SubmitStep /\ \E f \in Fields : InvalidValue(f, value[f])))
       => /\ value' = value
          /\ UNCHANGED <<successShow, successText, timers>>
          /\ UNCHANGED navVars]_vars

\* C20 witness: a padded address was validated and is still padded
C20_Witness ==
  /\ event.type = "blur" /\ event.target.kind = "email"
  /\ value["email"] = <<" ", "a", "@", "b", ".", "c", " ">>
  /\ event.returned

\* the text validateField leaves in the error element of f for value v
ExpectedText(f, v) ==
  IF IsBlank(v) THEN <<LabelOf(f), " harus diisi">>
  ELSE IF f = "email" /\ ~EmailShaped(CoreOf(v)) THEN <<"Format email tidak valid">>
  ELSE <<>>

\* C21: validateField is idempotent: a second call on the same field with
\* the value unchanged returns what the first returned and leaves the same
\* error class and error text, whether or not the field carried an error
\* before the first call
C21_ValidateFieldIdempotent ==
  [][\A f \in Fields :
        (event.type = "blur" /\ event.target.kind = f /\ BlurStep(f)) =>
           /\ event'.returned = event.returned
           /\ fieldError'[f] = fieldError[f]
           /\ errorText'[f] = errorText[f]]_vars

\* C21 witness: the email field went from the stale 'required' error to the
\* format error and stays there; the message field still carries the stale
\* error the run started with
C21_Witness ==
  /\ event.type = "blur" /\ event.target.kind = "email"
  /\ ~IsBlank(value["email"])
  /\ fieldError["email"] /\ errorText["email"] = <<"Format email tidak valid">>
  /\ fieldError["message"] /\ errorText["message"] = <<"Pesan", " harus diisi">>

\* C22: a blur leaves the field with the error class and error text a submit
\* leaves for the same value (set when invalid, cleared when valid), and
\* changes neither another field's error class or text nor the visibility
\* of the success message
C22_BlurMarksAsSubmit ==
  [][/\ \A f \in Fields : BlurStep(f) =>
           /\ fieldError'[f] = InvalidValue(f, value[f])
           /\ errorText'[f] = ExpectedText(f, value[f])
           /\ \A g \in Fields \ {f} :
                 fieldError'[g] = fieldError[g] /\ errorText'[g] = errorText[g]
           /\ successShow' = successShow
     /\ SubmitStep =>
           \A f \in Fields :
              /\ fieldError'[f] = InvalidValue(f, value[f])
              /\ errorText'[f] = ExpectedText(f, value[f])]_vars

\* C22 witness: a blur accepted the name while the message kept its error
\* and the success message stayed visible
C22_Witness ==
  /\ event.type = "blur" /\ event.target.kind = "name"
  /\ ~IsBlank(value["name"]) /\ ~fieldError["name"] /\ errorText["name"] = <<>>
  /\ fieldError["message"] /\ errorText["message"] # <<>>
  /\ successShow

\* ---- missing elements, scroll-driven highlighting, independence ----------

\* the click listener of the link that was clicked runs in this step
LinkStep == queue # <<>> /\ Head(queue) = "link" /\ queue' = Tail(queue)

\* the scroll listener runs in this step
ScrollStep == scrollPending /\ ~scrollPending'

\* the blur listener, the submit listener or a timer callback runs in this
\* step and has an effect: it is the last event, and the event record, an
\* error mark or the number of pending timers differs
FormHandlerStep ==
  /\ event'.type \in {"blur", "submit", "timer"}
  /\ \/ event' # event
     \/ fieldError' # fieldError \/ errorText' # errorText
     \/ Len(timers') # Len(timers)

\* C23 (as claimed): without the menu panel or without the toggle button
\* nothing is bound to the menu, the menu classes never change and no
\* listener throws, a click on a link with an existing target included
C23_AbsentMenuSilent ==
  ~(page.hasMenu /\ page.hasToggle) =>
     /\ ~event.threw
     /\ ~menuActive /\ ~toggleActive
     /\ \A k \in 1..Len(queue) : queue[k] \notin {"toggle", "document"}

\* C24: the click listener of a link whose fragment names no element
\* requests no scroll, throws nothing and changes no link's 'active'
C24_MissingTargetSkips ==
  [][(LinkStep /\ IsFragment(Href(event.target.link))
        /\ ~HasTarget(Href(event.target.link)))
       => /\ event'.scrollCalls = <<>>
          /\ ~event'.threw
          /\ UNCHANGED <<scrollTarget, pageYOffset, scrollPending, linkActive>>]_vars

\* C24 witness: a link to a missing element was clicked on a scrolled page
\* with an active link; the default was prevented and nothing else happened
C24_Witness ==
  /\ ClickDone /\ OnLink
  /\ IsFragment(Href(event.target.link)) /\ ~HasTarget(Href(event.target.link))
  /\ event.defaultPrevented /\ event.scrollCalls = <<>> /\ ~event.threw
  /\ event.yBefore > 0 /\ ActiveLinks # {}

\* the section that is current at offset y: the last one in document order
\* whose interval contains y + 100; 0 when there is none
CurrentAt(y) ==
  IF Containing(y + 100) = {} THEN 0
  ELSE CHOOSE k \in Containing(y + 100) : \A j \in Containing(y + 100) : j <= k

\* C25 (as claimed): whenever no event is being or waiting to be handled,
\* page load included, the active links are the links of the section that
\* contains offset + 100, and none when no section does
C25_ActiveFollowsOffset ==
  (queue = <<>> /\ ~scrollPending) =>
     \A i \in Links :
        linkActive[i] <=> (CurrentAt(pageYOffset) # 0 /\ Targets(i, CurrentAt(pageYOffset)))

\* the id updateActiveMenuItem compares the hrefs with at offset y
CurrentIdAt(y) == IF CurrentAt(y) = 0 THEN <<>> ELSE page.sections[CurrentAt(y)].id

\* C26: after a scroll event the active links are a function of the page
\* and the current offset alone, whatever scroll events came before and
\* whichever of them were skipped
C26_ActiveIsFunctionOfOffset ==
  ScrollHandled =>
     linkActive = [i \in Links |-> Href(i) = <<"#">> \o CurrentIdAt(pageYOffset)]

\* C26 witness: back at offset 0 after scrolling, the link marked in the
\* markup has lost 'active' to the link of the section at the top
C26_Witness ==
  /\ ScrollHandled /\ pageYOffset = 0
  /\ ActiveLinks # {}
  /\ \E j \in Links : page.links[j].active /\ ~linkActive[j]

\* C27: the scroll listener changes nothing but the links' 'active'; the
\* toggle and document listeners change nothing but the two menu classes;
\* blur, submit and the hide timer change nothing of the navigation or menu
C27_ControllersIndependent ==
  [][/\ ScrollStep =>
           /\ UNCHANGED <<menuActive, toggleActive, pageYOffset, scrollTarget>>
           /\ UNCHANGED formVars
     /\ (queue # <<>> /\ Head(queue) \in {"toggle", "document"} /\ queue' = Tail(queue)) =>
           /\ UNCHANGED <<linkActive, pageYOffset, scrollPending, scrollTarget>>
           /\ UNCHANGED formVars
     /\ FormHandlerStep => UNCHANGED navVars]_vars

\* C27 witness: a scroll event was handled while the menu was open, the
\* success message visible and a field marked; all three are as they were
C27_Witness ==
  /\ ScrollHandled /\ ActiveLinks # {}
  /\ menuActive /\ toggleActive
  /\ successShow /\ \E f \in Fields : fieldError[f]

\* no two sections share a point
NonOverlapping ==
  \A j \in 1..Len(page.sections) : \A k \in 1..Len(page.sections) :
     j # k => \/ page.sections[j].top + page.sections[j].height <= page.sections[k].top
              \/ page.sections[k].top + page.sections[k].height <= page.sections[j].top

\* the last click was on the link of a section, its one scroll request has
\* run to its end and the page rests where the browser could take it
SettledClick ==
  /\ ClickDone /\ OnLink
  /\ \E k \in 1..Len(page.sections) : Targets(event.target.link, k)
  /\ Len(event.scrollCalls) = 1
  /\ scrollTarget = <<>>
  /\ pageYOffset = (IF event.scrollCalls[1] < 0 THEN 0
                    ELSE IF event.scrollCalls[1] > page.maxScroll THEN page.maxScroll
                    ELSE event.scrollCalls[1])

\* C28 (as claimed): on a page without overlapping sections, the scroll
\* event that follows a settled link click leaves exactly the clicked link
\* active, also when the request was clamped to the scrollable range
C28_ClickedLinkBecomesActive ==
  [][(NonOverlapping /\ SettledClick /\ ScrollStep)
       => {i \in Links : linkActive'[i]} = {event.target.link}]_vars

\* C28 (amended): the same when the scroll settled at the requested offset
\* itself and the section is more than 20 high
C28_ClickedLinkBecomesActiveInRange ==
  [][(NonOverlapping /\ SettledClick /\ ScrollStep
        /\ pageYOffset = event.scrollCalls[1]
        /\ \A k \in 1..Len(page.sections) :
              Targets(event.target.link, k) => page.sections[k].height > 20)
       => {i \in Links : linkActive'[i]} = {event.target.link}]_vars

\* C28 witness: the page rests 80 above the top of a section, strictly
\* inside the scrollable range, where only a link click takes it, and the
\* link of that section alone is active
C28_Witness ==
  /\ ScrollHandled /\ NonOverlapping
  /\ 0 < pageYOffset /\ pageYOffset < page.maxScroll
  /\ \E i \in Links : \E k \in 1..Len(page.sections) :
        /\ Targets(i, k)
        /\ pageYOffset = page.sections[k].top - 80
        /\ ActiveLinks = {i}
        /\ ~page.links[i].active

\* C29: whenever the success element carries 'show', a hide timer is pending
C29_ShownHasTimer == successShow => Len(timers) >= 1

\* C29 witness: two submissions succeeded, a blur then marked a field; the
\* message is visible and both timers are pending
C29_Witness ==
  /\ event.type = "blur"
  /\ successShow /\ Len(timers) = 2
  /\ \E f \in Fields : fieldError[f]

====
